---------------------------- MODULE Spec2Model ----------------------------
(***************************************************************************)
(* Model of feroxbuster's link extractor (src/extractor.rs).               *)
(*                                                                         *)
(* Strings are sequences of one-character strings, so that splitting,     *)
(* joining, trimming, URL parsing and URL serialisation are computed      *)
(* character by character as the code and the url crate compute them.     *)
(***************************************************************************)
EXTENDS Naturals, Sequences, FiniteSets

VARIABLES
    pc,        \* per call slot: position of get_links
    url,       \* per call slot: response.url().clone()            (line 89)
    text,      \* per call slot: outcome of response.text().await  (line 92)
    captures,  \* per call slot: captures the iterator has not yielded yet
    links,     \* per call slot: the HashSet<String> being built   (line 90)
    returned,  \* per call slot: what the last finished call was given and returned
    budget,    \* per call slot: invocations of get_links still to come
    path,      \* argument of a stand-alone get_sub_paths_from_path call
    paths      \* its returned Vec<String>

vars == <<pc, url, text, captures, links, returned, budget, path, paths>>

\* Option<T>: None is the empty tuple, Some(x) the one-element tuple
None == <<>>
Some(x) == <<x>>

-----------------------------------------------------------------------------
(* Bounds of the model.                                                    *)

MaxPathLen == 5
MaxCaptures == 2
MaxCalls == 2

-----------------------------------------------------------------------------
(* Characters and strings.                                                 *)

Alpha == {"a","b","c","d","e","f","g","h","i","j","k","l","m",
          "n","o","p","q","r","s","t","u","v","w","x","y","z"}
Digit == {"0","1","2","3","4","5","6","7","8","9"}
Quote == {"'", "\""}

AllIn(s, S) == \A i \in 1..Len(s) : s[i] \in S
NoneIn(s, S) == \A i \in 1..Len(s) : s[i] \notin S
From(s, i) == SubSeq(s, i, Len(s))
StartsWith(s, p) == Len(s) >= Len(p) /\ SubSeq(s, 1, Len(p)) = p
Positions(s, c) == {i \in 1..Len(s) : s[i] = c}
Min(S) == CHOOSE i \in S : \A j \in S : i <= j
Max(S) == CHOOSE i \in S : \A j \in S : i >= j

\* str::split(sep): the pieces between occurrences of sep, empty ones included
RECURSIVE Split(_, _)
Split(s, sep) ==
    IF Positions(s, sep) = {} THEN <<s>>
    ELSE LET i == Min(Positions(s, sep))
         IN  <<SubSeq(s, 1, i - 1)>> \o Split(From(s, i + 1), sep)

\* [&str]::join(sep)
RECURSIVE Join(_, _)
Join(parts, sep) ==
    IF parts = <<>> THEN <<>>
    ELSE IF Len(parts) = 1 THEN parts[1]
    ELSE parts[1] \o <<sep>> \o Join(Tail(parts), sep)

\* Vec::pop
Pop(v) == SubSeq(v, 1, Len(v) - 1)

Range(f) == {f[i] : i \in DOMAIN f}

-----------------------------------------------------------------------------
(* get_sub_paths_from_path, lines 26-55.                                   *)

IsNonEmpty(s) == s /= <<>>

\* a split that forgets the filter of line 31
SplitKeepingEmpty(p) == Split(p, "/")

\* line 31: path.split('/').filter(|s| !s.is_empty()).collect()
SplitParts(p) == SelectSeq(Split(p, "/"), IsNonEmpty)

\* lines 35-51: for _ in 0..length { ... }, n iterations left
RECURSIVE SubPathsLoop(_, _, _)
SubPathsLoop(n, parts, acc) ==
    IF n = 0 THEN acc
    ELSE IF parts = <<>> THEN acc                             \* break
    ELSE LET possible_path == Join(parts, "/")
         IN  IF possible_path = <<>>
             THEN SubPathsLoop(n - 1, parts, acc)             \* continue
             ELSE SubPathsLoop(n - 1, Pop(parts), Append(acc, possible_path))

\* a loop that also pushes the join of no segments at all
SubPathsWithEmpty(p) ==
    LET parts == SplitParts(p)
    IN  Append(SubPathsLoop(Len(parts), parts, <<>>), <<>>)

get_sub_paths_from_path(p) ==
    LET parts == SplitParts(p)
    IN  SubPathsLoop(Len(parts), parts, <<>>)

-----------------------------------------------------------------------------
(* The url crate as the extractor uses it: Url::parse (line 97),           *)
(* Url::join (line 65), Url::domain (line 99), Url::path (line 105) and    *)
(* Url::to_string (line 67).  A URL is a record                            *)
(*   [scheme, kind, host, port, path, cab]                                 *)
(* kind is "domain", "ipv4", "empty" or "none" (no authority); cab is       *)
(* cannot-be-a-base.  The                                                  *)
(* inputs of this model carry no userinfo, query, fragment, IPv6 literal,  *)
(* percent sign or numeric port, so those parts of the parser are left out.*)

HTTP == <<"h","t","t","p">>
HTTPS == <<"h","t","t","p","s">>
SpecialSchemes == {HTTP, HTTPS, <<"w","s">>, <<"w","s","s">>, <<"f","t","p">>}
SchemeChar == Alpha \cup Digit \cup {"+", "-", "."}

Ok(u) == [ok |-> TRUE, url |-> u]
Err(e) == [ok |-> FALSE, err |-> e]

RelativeUrlWithoutBase == "relative URL without a base"
EmptyHost == "empty host"
InvalidPort == "invalid port number"

\* Parser::parse_scheme: an ASCII letter, then letters, digits, + - . up to ':'
HasScheme(s) ==
    /\ s /= <<>>
    /\ s[1] \in Alpha
    /\ Positions(s, ":") /= {}
    /\ AllIn(SubSeq(s, 1, Min(Positions(s, ":")) - 1), SchemeChar)
SchemeOf(s) == SubSeq(s, 1, Min(Positions(s, ":")) - 1)
AfterScheme(s) == From(s, Min(Positions(s, ":")) + 1)

\* special schemes read '\' as '/'
Slashed(s) == [i \in 1..Len(s) |-> IF s[i] = "\\" THEN "/" ELSE s[i]]

\* the number of leading '/' of s
LeadingSlashes(s) ==
    IF Positions(s, "/") = {} THEN 0
    ELSE Max({n \in 0..Len(s) : \A i \in 1..n : s[i] = "/"})

\* Parser::parse_path: segments in order, "." skipped, ".." popping
DropLast(segs) == IF segs = <<>> THEN segs ELSE Pop(segs)
RECURSIVE PathSegs(_, _)
PathSegs(acc, pieces) ==
    IF pieces = <<>> THEN acc
    ELSE LET seg == Head(pieces)
             last == Len(pieces) = 1
         IN  IF seg = <<".", ".">>
             THEN PathSegs(IF last THEN Append(DropLast(acc), <<>>) ELSE DropLast(acc),
                           Tail(pieces))
             ELSE IF seg = <<".">>
             THEN PathSegs(IF last THEN Append(acc, <<>>) ELSE acc, Tail(pieces))
             ELSE PathSegs(Append(acc, seg), Tail(pieces))
ParsePath(before, input) == <<"/">> \o Join(PathSegs(before, Split(input, "/")), "/")

\* Host::parse: a host of four decimal labels is an IPv4 address; the hosts
\* of this model are either that, written canonically, or contain a letter
IsIpv4(h) ==
    LET labels == Split(h, ".")
    IN  Len(labels) = 4 /\ \A i \in 1..4 : labels[i] /= <<>> /\ AllIn(labels[i], Digit)

\* Parser::after_double_slash: host, port, then the path
AfterDoubleSlash(scheme, rest) ==
    LET special == scheme \in SpecialSchemes
        stop == IF Positions(rest, "/") = {} THEN Len(rest) + 1
                ELSE Min(Positions(rest, "/"))
        authority == SubSeq(rest, 1, stop - 1)
        tail == From(rest, stop)
        colon == IF Positions(authority, ":") = {} THEN Len(authority) + 1
                 ELSE Min(Positions(authority, ":"))
        host == SubSeq(authority, 1, colon - 1)
        port == From(authority, colon + 1)
    IN  IF special /\ host = <<>> THEN Err(EmptyHost)
        ELSE IF ~AllIn(port, Digit) THEN Err(InvalidPort)
        ELSE Ok([scheme |-> scheme,
                 kind   |-> IF host = <<>> THEN "empty"
                            ELSE IF special /\ IsIpv4(host) THEN "ipv4"
                            ELSE "domain",
                 host   |-> host,
                 port   |-> port,
                 path   |-> IF tail = <<>>
                            THEN (IF special THEN <<"/">> ELSE <<>>)
                            ELSE ParsePath(<<>>, From(tail, 2)),
                 cab    |-> FALSE])

\* Parser::parse_relative: input has no scheme of its own, base is hierarchical
ParseRelative(input, base) ==
    IF input = <<>> THEN Ok(base)
    ELSE IF LeadingSlashes(input) >= 2
    THEN AfterDoubleSlash(base.scheme,
                          From(input, IF base.scheme \in SpecialSchemes
                                      THEN LeadingSlashes(input) + 1 ELSE 3))
    ELSE IF LeadingSlashes(input) = 1
    THEN Ok([base EXCEPT !.path = ParsePath(<<>>, From(input, 2))])
    ELSE Ok([base EXCEPT !.path =
                ParsePath(Pop(Split(From(base.path, 2), "/")), input)])

\* Parser::parse_url with an optional base
ParseUrl(input, base) ==
    IF HasScheme(input)
    THEN LET scheme == SchemeOf(input)
             special == scheme \in SpecialSchemes
             rest == IF special THEN Slashed(AfterScheme(input)) ELSE AfterScheme(input)
         IN  IF special
             THEN IF base /= None /\ LeadingSlashes(rest) < 2 /\ base[1].scheme = scheme
                  THEN ParseRelative(rest, base[1])
                  ELSE AfterDoubleSlash(scheme, From(rest, LeadingSlashes(rest) + 1))
             ELSE IF LeadingSlashes(rest) >= 2
                  THEN AfterDoubleSlash(scheme, From(rest, 3))
             ELSE IF LeadingSlashes(rest) = 1
                  THEN Ok([scheme |-> scheme, kind |-> "none", host |-> <<>>,
                           port |-> <<>>, path |-> ParsePath(<<>>, From(rest, 2)),
                           cab |-> FALSE])
             ELSE Ok([scheme |-> scheme, kind |-> "none", host |-> <<>>,
                      port |-> <<>>, path |-> rest, cab |-> TRUE])
    ELSE IF base = None THEN Err(RelativeUrlWithoutBase)
    ELSE ParseRelative(IF base[1].scheme \in SpecialSchemes THEN Slashed(input)
                       ELSE input,
                       base[1])

UrlParse(input) == ParseUrl(input, None)
UrlJoin(base, input) == ParseUrl(input, Some(base))

\* Url::domain: the host when it is a domain name, None for an IP address
domain(u) == IF u.kind = "domain" THEN Some(u.host) ELSE None

\* Url::to_string
to_string(u) ==
    u.scheme \o <<":">>
    \o (IF u.kind = "none" THEN <<>>
        ELSE <<"/", "/">> \o u.host
             \o (IF u.port = <<>> THEN <<>> ELSE <<":">> \o u.port))
    \o u.path

-----------------------------------------------------------------------------
(* LINKFINDER_REGEX, line 10, and REGEX.captures_iter, line 92.            *)
(*                                                                         *)
(* A body text is a list of quoted strings, which stand in the text one    *)
(* after the other with a blank between them.  The pattern is anchored on  *)
(* a quote at both ends and none of its classes admits a quote, so a match *)
(* is always one whole quoted string, and captures_iter yields, in order,  *)
(* the quoted strings whose inside matches one of the five alternatives.   *)

Inside(capture) == SubSeq(capture, 2, Len(capture) - 1)
WordSlash == Alpha \cup Digit \cup {"_", "-", "/"}
WordDot == Alpha \cup Digit \cup {"_", "-", "."}
FirstExcluded == Quote \cup {">", "<", ",", ";", "|", " ", "*", "(", ")", "%", "$",
                              "^", "/", "\\", "[", "]"}
RestExcluded == Quote \cup {">", "<", ",", ";", "|", "(", ")"}
Extensions ==
    {<<"p","h","p">>, <<"a","s","p">>, <<"a","s","p","x">>, <<"j","s","p">>,
     <<"j","s","o","n">>, <<"a","c","t","i","o","n">>, <<"h","t","m","l">>,
     <<"j","s">>, <<"t","x","t">>, <<"x","m","l">>}

\* (?:[\?|#][^"|']{0,}|)
QueryTail(t) == t = <<>> \/ (t[1] \in {"?", "|", "#"} /\ NoneIn(Tail(t), Quote \cup {"|"}))

\* ((?:[a-zA-Z]{1,10}://|//)[^"'/]{1,}\.[a-zA-Z]{2,}[^"']{0,})
MatchesUrl(s) ==
    \E i \in 2..Len(s), j \in 1..Len(s) :
        /\ \/ SubSeq(s, 1, i) = <<"/", "/">>
           \/ /\ i >= 4 /\ i <= 13
              /\ AllIn(SubSeq(s, 1, i - 3), Alpha)
              /\ SubSeq(s, i - 2, i) = <<":", "/", "/">>
        /\ j > i + 1
        /\ NoneIn(SubSeq(s, i + 1, j - 1), Quote \cup {"/"})
        /\ s[j] = "."
        /\ j + 2 <= Len(s) /\ s[j + 1] \in Alpha /\ s[j + 2] \in Alpha
        /\ NoneIn(From(s, j + 3), Quote)

\* ((?:/|\.\./|\./)[^"'><,;| *()(%%$^/\\\[\]][^"'><,;|()]{1,})
MatchesRooted(s) ==
    \E p \in {<<"/">>, <<".", ".", "/">>, <<".", "/">>} :
        /\ StartsWith(s, p)
        /\ Len(s) >= Len(p) + 2
        /\ s[Len(p) + 1] \notin FirstExcluded
        /\ NoneIn(From(s, Len(p) + 2), RestExcluded)

\* ([a-zA-Z0-9_\-/]{1,}/[a-zA-Z0-9_\-/]{1,}\.(?:[a-zA-Z]{1,4}|action)(?:...|))
MatchesPathWithExtension(s) ==
    \E i \in 2..Len(s), j \in 3..Len(s), k \in 4..Len(s) :
        /\ i + 1 < j /\ j < k
        /\ AllIn(SubSeq(s, 1, i - 1), WordSlash) /\ s[i] = "/"
        /\ AllIn(SubSeq(s, i + 1, j - 1), WordSlash) /\ s[j] = "."
        /\ \/ k - j <= 4 /\ AllIn(SubSeq(s, j + 1, k), Alpha)
           \/ SubSeq(s, j + 1, k) = <<"a","c","t","i","o","n">>
        /\ QueryTail(From(s, k + 1))

\* ([a-zA-Z0-9_\-/]{1,}/[a-zA-Z0-9_\-/]{3,}(?:...|))
MatchesPath(s) ==
    \E i \in 2..Len(s), k \in 4..Len(s) :
        /\ i + 3 <= k
        /\ AllIn(SubSeq(s, 1, i - 1), WordSlash) /\ s[i] = "/"
        /\ AllIn(SubSeq(s, i + 1, k), WordSlash)
        /\ QueryTail(From(s, k + 1))

\* ([a-zA-Z0-9_\-.]{1,}\.(?:php|asp|aspx|jsp|json|action|html|js|txt|xml)(?:...|))
MatchesFile(s) ==
    \E j \in 2..Len(s), k \in 3..Len(s) :
        /\ j < k
        /\ AllIn(SubSeq(s, 1, j - 1), WordDot) /\ s[j] = "."
        /\ SubSeq(s, j + 1, k) \in Extensions
        /\ QueryTail(From(s, k + 1))

LINKFINDER_REGEX(capture) ==
    /\ Len(capture) >= 2
    /\ capture[1] \in Quote /\ capture[Len(capture)] \in Quote
    /\ LET s == Inside(capture)
       IN  \/ MatchesUrl(s)
           \/ MatchesRooted(s)
           \/ MatchesPathWithExtension(s)
           \/ MatchesPath(s)
           \/ MatchesFile(s)

captures_iter(body) == SelectSeq(body, LINKFINDER_REGEX)

\* line 95: capture[0].trim_matches(|c| c == '\'' || c == '"')
RECURSIVE trim_matches(_)
trim_matches(s) ==
    IF s = <<>> THEN s
    ELSE IF s[1] \in Quote THEN trim_matches(Tail(s))
    ELSE IF s[Len(s)] \in Quote THEN trim_matches(Pop(s))
    ELSE s

-----------------------------------------------------------------------------
(* The responses get_links is called with.                                 *)

\* "/login": root-relative, one segment
Login ==
    <<"/","l","o","g","i","n">>
\* "/assets/app.js": root-relative, two segments
Script ==
    <<"/","a","s","s","e","t","s","/","a","p","p",".","j","s">>
\* "img/logo.png": relative path with an extension
Image ==
    <<"i","m","g","/","l","o","g","o",".","p","n","g">>
\* "./help": dot-relative
DotHelp ==
    <<".","/","h","e","l","p">>
\* "//evil.io/x.js": protocol-relative, foreign host
ProtoRelEvil ==
    <<"/","/","e","v","i","l",".","i","o","/","x",".","j","s">>
\* "/mailto:bob": root-relative, its segment reads as scheme:rest
Mailto ==
    <<"/","m","a","i","l","t","o",":","b","o","b">>
\* "/https:/evil.io": root-relative, first segment "https:"
SchemeSeg ==
    <<"/","h","t","t","p","s",":","/","e","v","i","l",".","i","o">>
\* "http://site.io/admin/db.php": absolute, host of the domain bases
SameOrigin ==
    <<"h","t","t","p",":","/","/","s","i","t","e",".","i","o","/","a","d",
      "m","i","n","/","d","b",".","p","h","p">>
\* "https://evil.io/x.js": absolute, foreign domain
EvilDomain ==
    <<"h","t","t","p","s",":","/","/","e","v","i","l",".","i","o","/","x",
      ".","j","s">>
\* "http://10.0.0.2\admin.php": absolute, foreign IP address
EvilIp ==
    <<"h","t","t","p",":","/","/","1","0",".","0",".","0",".","2","\\","a",
      "d","m","i","n",".","p","h","p">>
\* "https://site.io/login": absolute, host of the domain bases, other scheme
OtherScheme ==
    <<"h","t","t","p","s",":","/","/","s","i","t","e",".","i","o","/","l",
      "o","g","i","n">>
\* "http://site.io:x/a": absolute, malformed port
BadPort ==
    <<"h","t","t","p",":","/","/","s","i","t","e",".","i","o",":","x","/",
      "a">>
\* "x://site.io": absolute, non-special scheme, empty path
NoPath ==
    <<"x",":","/","/","s","i","t","e",".","i","o">>
\* "http://site.io//": absolute, path of slashes only
OnlySlashes ==
    <<"h","t","t","p",":","/","/","s","i","t","e",".","i","o","/","/">>
\* "login": no link at all
Word ==
    <<"l","o","g","i","n">>

Quoted(s) == <<"\"">> \o s \o <<"\"">>
Strings == {Login, Script, Image, DotHelp, ProtoRelEvil, Mailto, SchemeSeg, SameOrigin,
            EvilDomain, EvilIp, OtherScheme, BadPort, NoPath, OnlySlashes, Word}
QuotedStrings == {Quoted(s) : s \in Strings}

\* the hosts of the base locations
SiteHost ==
    <<"s","i","t","e",".","i","o">>
IpHost ==
    <<"1","0",".","0",".","0",".","1">>
\* a base path other than "/"
IndexPath ==
    <<"/","a","p","p","/","i","n","d","e","x",".","h","t","m","l">>

BaseUrl(host, kind, p) ==
    [scheme |-> HTTP, kind |-> kind, host |-> host, port |-> <<>>, path |-> p,
     cab |-> FALSE]
SiteRoot == BaseUrl(SiteHost, "domain", <<"/">>)
SiteIndex == BaseUrl(SiteHost, "domain", IndexPath)
IpRoot == BaseUrl(IpHost, "ipv4", <<"/">>)
Bases == {SiteRoot, SiteIndex, IpRoot}

Bodies == UNION {[1..n -> QuotedStrings] : n \in 0..MaxCaptures}

\* a response: its url, and what response.text().await will give:
\* Some(body) for Ok(body), None for Err
Responses == {[url |-> b, text |-> t] : b \in Bases,
                                         t \in {None} \cup {Some(d) : d \in Bodies}}

\* the bodies and responses of the runs with several calls
FewBodies == {<<Quoted(Login)>>, <<Quoted(EvilDomain), Quoted(Script)>>}
FewResponses == {[url |-> b, text |-> Some(d)] : b \in {SiteRoot, SiteIndex},
                                                  d \in FewBodies}
                \cup {[url |-> SiteRoot, text |-> None]}

Paths == UNION {[1..n -> {"/", "a", "b"}] : n \in 0..MaxPathLen}

-----------------------------------------------------------------------------
(* add_link_to_set_of_links, lines 58-74, and get_links, lines 86-134.     *)

\* lines 65-72: insert the joined url, or log the error and go on
add_link_to_set_of_links(link, base, set) ==
    LET joined == UrlJoin(base, link)
    IN  IF joined.ok THEN set \cup {to_string(joined.url)} ELSE set

\* lines 105-113 and 120-123: for sub_path in get_sub_paths_from_path(..)
RECURSIVE AddSubPaths(_, _, _)
AddSubPaths(sub_paths, base, set) ==
    IF sub_paths = <<>> THEN set
    ELSE AddSubPaths(Tail(sub_paths), base,
                     add_link_to_set_of_links(Head(sub_paths), base, set))

\* a test that takes every parse error for the relative one
IsAnyError(e) == TRUE

\* line 119: e.to_string().contains("relative URL without a base")
IsRelativeError(e) == e = RelativeUrlWithoutBase

\* lines 93-129: the body of the loop over the captures
ProcessCapture(capture, base, set) ==
    LET link == trim_matches(capture)
        parsed == UrlParse(link)
    IN  IF parsed.ok
        THEN IF domain(parsed.url) /= domain(base)
             THEN set                                               \* continue
             ELSE AddSubPaths(get_sub_paths_from_path(parsed.url.path), base, set)
        ELSE IF IsRelativeError(parsed.err)
             THEN AddSubPaths(get_sub_paths_from_path(link), base, set)
             ELSE set                                               \* log::error!

\* a set that outlives the call: what any call has collected so far
SharedHashSet == UNION {links[c] : c \in {1, 2}}

\* line 90: HashSet::<String>::new()
NewHashSet == {}

Slots == {1, 2}

\* get_links(response) is called: lines 87-90
Enter(c, rs) ==
    /\ pc[c] \in {"idle", "returned"}
    /\ budget[c] > 0
    /\ \E r \in rs :
          /\ url' = [url EXCEPT ![c] = r.url]
          /\ text' = [text EXCEPT ![c] = r.text]
    /\ links' = [links EXCEPT ![c] = NewHashSet]
    /\ captures' = [captures EXCEPT ![c] = <<>>]
    /\ budget' = [budget EXCEPT ![c] = budget[c] - 1]
    /\ pc' = [pc EXCEPT ![c] = "await"]
    /\ UNCHANGED <<returned, path, paths>>

\* line 92: response.text().await gave Ok(body); the iterator is created
TextOk(c) ==
    /\ pc[c] = "await"
    /\ text[c] /= None
    /\ captures' = [captures EXCEPT ![c] = captures_iter(text[c][1])]
    /\ pc' = [pc EXCEPT ![c] = "loop"]
    /\ UNCHANGED <<url, text, links, returned, budget, path, paths>>

\* line 92: response.text().await gave Err; unwrap() panics
TextErr(c) ==
    /\ pc[c] = "await"
    /\ text[c] = None
    /\ pc' = [pc EXCEPT ![c] = "panicked"]
    /\ UNCHANGED <<url, text, captures, links, returned, budget, path, paths>>

\* lines 92-130: one iteration of the loop
NextCapture(c) ==
    /\ pc[c] = "loop"
    /\ captures[c] /= <<>>
    /\ links' = [links EXCEPT ![c] = ProcessCapture(Head(captures[c]), url[c], links[c])]
    /\ captures' = [captures EXCEPT ![c] = Tail(captures[c])]
    /\ UNCHANGED <<pc, url, text, returned, budget, path, paths>>

\* lines 132-133: the iterator is exhausted, links is returned
Exit(c) ==
    /\ pc[c] = "loop"
    /\ captures[c] = <<>>
    /\ returned' = [returned EXCEPT ![c] =
                       Some([url |-> url[c], text |-> text[c], links |-> links[c]])]
    /\ pc' = [pc EXCEPT ![c] = "returned"]
    /\ UNCHANGED <<url, text, captures, links, budget, path, paths>>

\* a caller of get_sub_paths_from_path alone, as the unit tests of lines 143-200
Expand ==
    /\ paths = None
    /\ paths' = Some(get_sub_paths_from_path(path))
    /\ UNCHANGED <<pc, url, text, captures, links, returned, budget, path>>

Idle(b) ==
    /\ pc = [c \in Slots |-> "idle"]
    /\ url = [c \in Slots |-> SiteRoot]
    /\ text = [c \in Slots |-> None]
    /\ captures = [c \in Slots |-> <<>>]
    /\ links = [c \in Slots |-> {}]
    /\ returned = [c \in Slots |-> None]
    /\ budget = b

\* one call of get_links, any response
Init == Idle([c \in Slots |-> IF c = 1 THEN 1 ELSE 0]) /\ path = <<>> /\ paths = Some(<<>>)
Next == Enter(1, Responses) \/ TextOk(1) \/ TextErr(1) \/ NextCapture(1) \/ Exit(1)
Spec == Init /\ [][Next]_vars

\* calls of get_links one after the other and side by side, few responses
InitCalls == Idle([c \in Slots |-> MaxCalls]) /\ path = <<>> /\ paths = Some(<<>>)
NextCalls ==
    \E c \in Slots :
        Enter(c, FewResponses) \/ TextOk(c) \/ TextErr(c) \/ NextCapture(c) \/ Exit(c)
SpecCalls == InitCalls /\ [][NextCalls]_vars

\* get_sub_paths_from_path on every path over "/", "a", "b"
InitPaths == Idle([c \in Slots |-> 0]) /\ path \in Paths /\ paths = None
NextPaths == Expand
SpecPaths == InitPaths /\ [][NextPaths]_vars

-----------------------------------------------------------------------------
(* Vocabulary of the properties.                                           *)

Finished(c) == pc[c] = "returned"
Body(c) == text[c][1]
\* the matches of the body of slot c, quotes trimmed, in order
Matches(c) == [i \in 1..Len(captures_iter(Body(c))) |->
                  trim_matches(captures_iter(Body(c))[i])]
\* the body of slot c holds exactly one match
OnlyMatch(c) == Len(Matches(c)) = 1

IsAbsolute(link) == UrlParse(link).ok
IsRelative(link) == ~UrlParse(link).ok /\ UrlParse(link).err = RelativeUrlWithoutBase
IsMalformed(link) == ~UrlParse(link).ok /\ UrlParse(link).err /= RelativeUrlWithoutBase

\* same scheme and same host
SameSchemeAndHost(u, v) == u.scheme = v.scheme /\ u.kind = v.kind /\ u.host = v.host

\* scheme://host of a base location
OriginText(base) == base.scheme \o <<":", "/", "/">> \o base.host
\* the url a text names, as the url crate writes it
Named(t) == to_string(UrlParse(t).url)

\* t occurs in s
Contains(s, t) == \E i \in 0..(Len(s) - Len(t)) : SubSeq(s, i + 1, i + Len(t)) = t

\* the segments of a path, read off the path itself: a segment starts at a
\* non-slash that begins the path or follows a slash
SegStarts(p) == {i \in 1..Len(p) : p[i] /= "/" /\ (i = 1 \/ p[i - 1] = "/")}
SegEnds(p) == {i \in 1..Len(p) : p[i] /= "/" /\ (i = Len(p) \/ p[i + 1] = "/")}
NumSegments(p) == Cardinality(SegStarts(p))
Nth(S, k) == CHOOSE i \in S : Cardinality({j \in S : j <= i}) = k
Segment(p, k) == SubSeq(p, Nth(SegStarts(p), k), Nth(SegEnds(p), k))
\* s1/.../sk
Prefix(p, k) ==
    LET pre[n \in 1..k] == IF n = 1 THEN Segment(p, 1)
                           ELSE pre[n - 1] \o <<"/">> \o Segment(p, n)
    IN  pre[k]
Prefixes(p) == {Prefix(p, k) : k \in 1..NumSegments(p)}

-----------------------------------------------------------------------------
(* C1.  After get_links returns, every member of the Result Set is an      *)
(* absolute URL with the scheme and host of the Base Location.             *)
(* The code breaks it: a prefix whose first segment reads "scheme:" is     *)
(* joined into a URL of its own ("/mailto:bob" gives mailto:bob).          *)
C1_ResultSetSameOrigin ==
    \A c \in Slots :
        Finished(c) =>
            \A l \in links[c] :
                IsAbsolute(l) /\ SameSchemeAndHost(UrlParse(l).url, url[c])

\* the hosts differ: a domain name against an IP address, or two names, or
\* two addresses
ForeignHost(u, base) == u.kind /= base.kind \/ u.host /= base.host

(* C2.  A body whose only match is an absolute URL whose origin differs    *)
(* from the Base Location's, be the host a domain name or an IP address,   *)
(* yields an empty Result Set.  The origins are taken to differ when the   *)
(* hosts do, the least the claim asks for.                                 *)
(* The code breaks it: line 99 compares Url::domain, which is None for     *)
(* every IP address, so two different addresses pass for the same origin.  *)
(* (A match that differs from the base in the scheme alone is not dropped  *)
(* either.)                                                                *)
C2_ForeignOriginDropped ==
    \A c \in Slots :
        ( /\ Finished(c)
          /\ OnlyMatch(c)
          /\ IsAbsolute(Matches(c)[1])
          /\ ForeignHost(UrlParse(Matches(c)[1]).url, url[c]) )
        => links[c] = {}

(* C4.  get_links never aborts: whatever response.text() gives, the call   *)
(* does not panic.                                                         *)
(* The code breaks it: line 92 unwraps the result of response.text().      *)
C4_NeverAborts == \A c \in Slots : pc[c] /= "panicked"

(* C6.  For a body whose only match has no scheme, with a Base Location of *)
(* path "/", the Result Set is exactly the URLs origin/s1/.../sk, k in     *)
(* 1..N, each an absolute URL.                                             *)
(* The code breaks it for a segment that reads "scheme:", as in C1.        *)
C6_RelativeMatchJoined ==
    \A c \in Slots :
        ( /\ Finished(c)
          /\ OnlyMatch(c)
          /\ IsRelative(Matches(c)[1])
          /\ url[c].path = <<"/">> )
        => /\ \A l \in links[c] : IsAbsolute(l)
           /\ links[c] = {Named(OriginText(url[c]) \o <<"/">> \o q) :
                              q \in Prefixes(Matches(c)[1])}

\* the path a match names from the root: its own text when root-relative,
\* its path when an absolute URL
IsRootRelative(link) == StartsWith(link, <<"/">>) /\ ~StartsWith(link, <<"/", "/">>)
FullPath(link) == IF IsAbsolute(link) THEN UrlParse(link).url.path ELSE link

EvilHost == <<"e","v","i","l",".","i","o">>

\* "//host..." naming the host h
IsProtocolRelativeTo(link, h) == StartsWith(link, <<"/", "/">> \o h)

(* C10.  A protocol-relative match naming a foreign host contributes       *)
(* nothing: a body whose only match is "//evil.io/x.js" yields no entry,   *)
(* and no entry contains the foreign host name.                            *)
(* The code breaks it: the match is taken for a path and "evil.io" becomes *)
(* its first segment.                                                      *)
C10_ProtocolRelativeDropped ==
    \A c \in Slots :
        ( /\ Finished(c)
          /\ OnlyMatch(c)
          /\ IsProtocolRelativeTo(Matches(c)[1], EvilHost) )
        => /\ links[c] = {}
           /\ \A l \in links[c] : ~Contains(l, EvilHost)

-----------------------------------------------------------------------------
(* Properties of get_sub_paths_from_path, under SpecPaths.                 *)

C7_NoEmptyPrefix ==
    paths /= None =>
        /\ AllIn(path, {"/"}) => paths[1] = <<>>
        /\ \A i \in 1..Len(paths[1]) : paths[1][i] /= <<>>

\* "//" has been expanded into nothing
C7_Witness == path = <<"/", "/">> /\ paths = Some(<<>>)

-----------------------------------------------------------------------------
(* Properties of get_links that hold.                                      *)

\* the prefixes get_links hands to add_link_to_set_of_links for a match: none
\* for a malformed or dropped match
Handed(m, base) ==
    IF IsMalformed(m) THEN {}
    ELSE IF IsRelative(m) THEN Prefixes(m)
    ELSE IF domain(UrlParse(m).url) = domain(base) THEN Prefixes(UrlParse(m).url.path)
    ELSE {}
\* the prefixes among them whose join against the base succeeds
Joinable(m, base) == {q \in Handed(m, base) : UrlJoin(base, q).ok}
Failing(m, base) == {q \in Handed(m, base) : ~UrlJoin(base, q).ok}

(* C5.  A failure is isolated: the returned Result Set is exactly what the *)
(* matches that parse (or are relative) give through their prefixes that   *)
(* join; a match that fails to parse and a prefix that fails to join       *)
(* contribute nothing and stop nothing.                                    *)
C5_FailureIsolated ==
    \A c \in Slots :
        Finished(c) =>
            links[c] = UNION { {to_string(UrlJoin(url[c], q).url) : q \in Joinable(m, url[c])} :
                               m \in Range(Matches(c)) }

\* after a match with a malformed port came "/https:/evil.io", whose prefix
\* "https:" cannot be joined and whose other prefix was joined
C5_Witness ==
    /\ Finished(1)
    /\ Matches(1) = <<BadPort, SchemeSeg>>
    /\ IsMalformed(BadPort)
    /\ Failing(SchemeSeg, url[1]) = {HTTPS \o <<":">>}
    /\ links[1] = {HTTPS \o <<":", "/", "/">> \o EvilHost \o <<"/">>}

(* C8.  The Result Set is a function of the call's document and Base       *)
(* Location alone: two finished calls given the same url and the same body *)
(* returned the same set, whatever ran before or beside them.              *)
C8_SameInputSameResult ==
    \A c \in Slots, d \in Slots :
        ( /\ returned[c] /= None /\ returned[d] /= None
          /\ returned[c][1].url = returned[d][1].url
          /\ returned[c][1].text = returned[d][1].text )
        => returned[c][1].links = returned[d][1].links

\* slot 2 returned from its last call what slot 1 returned from its first for
\* the same response, while slot 1 is in the middle of another call
C8_Witness ==
    /\ returned[1] /= None /\ returned[2] = returned[1]
    /\ returned[1][1].links /= {}
    /\ budget[2] = 0 /\ budget[1] = 0
    /\ pc[1] = "loop" /\ captures[1] /= <<>>

=============================================================================
